---- MODULE Spec2Model ----
(***************************************************************************)
(* Model of datashader/cre_cache.py: the precise cache locator that keys a *)
(* numba compilation cache on a function's bytecode and on the globals the *)
(* bytecode names, the cache classes built on it, and the method that      *)
(* switches one Dispatcher to the precise cache.                           *)
(***************************************************************************)
EXTENDS Integers, Sequences, FiniteSets, TLC

VARIABLES
    locator,          \* the _PreciseCacheLocator objects (and their __init__ frames)
    ret,              \* what the last accessor call returned
    dispatcher,       \* the Dispatcher objects: py_func, source file, _cache
    locator_classes,  \* the _locator_classes attribute of each cache implementation
    imported          \* whether datashader.cre_cache has been imported

vars == <<locator, ret, dispatcher, locator_classes, imported>>

-----------------------------------------------------------------------------
(* Bounds and program constants *)

\* plain integer globals are drawn from 5..MaxPlainInt
MaxPlainInt == 6

\* the rest of an inner callable (its own names and globals) is one of 0..MaxInner
MaxInner == 1

\* get_disambiguator slices the first 10 characters
PrefixLen == 10

\* a sha256 hexdigest has 64 characters
DigestLen == 64

Locators == {"L1", "L2"}
Dispatchers == {"d1", "d2"}
Names == {"g", "h"}
Files == {"mod.py", "<stdin>"}

\* co_code of the functions being fingerprinted
Codes == {<<116, 0, 83, 0>>, <<116, 1, 83, 0>>}

\* co_code of the functions wrapped by an _Intrinsic or a Dispatcher global
InnerCodeA == <<124, 0, 83, 0>>
InnerCodes == {InnerCodeA, <<124, 1, 83, 0>>}

-----------------------------------------------------------------------------
(* Python values a global can hold *)

IntValue(n) == [kind |-> "int", data |-> <<n>>, inner |-> 0]
BytesValue(b) == [kind |-> "bytes", data |-> b, inner |-> 0]
\* an object whose __getstate__ raises (class Bad of the test)
BadValue == [kind |-> "Bad", data |-> <<>>, inner |-> 0]
\* data is v._defn.__code__.co_code, inner stands for everything else of v._defn
IntrinsicValue(c, i) == [kind |-> "_Intrinsic", data |-> c, inner |-> i]
\* data is v.py_func.__code__.co_code, inner stands for everything else of v.py_func
DispatcherValue(c, i) == [kind |-> "Dispatcher", data |-> c, inner |-> i]

IsWrappedKind(kind) == kind \in {"_Intrinsic", "Dispatcher"}

PlainValues == {IntValue(n) : n \in 5..MaxPlainInt} \cup {BytesValue(InnerCodeA)}
WrappedValues ==
    {IntrinsicValue(c, 0) : c \in InnerCodes}
        \cup {DispatcherValue(InnerCodeA, i) : i \in 0..MaxInner}
Values == PlainValues \cup {BadValue} \cup WrappedValues

\* "g" ranges over every value, "h" is absent or the plain integer 5
AllMappings == UNION {[D -> Values] : D \in SUBSET Names}
Glbs == {m \in AllMappings : "h" \in DOMAIN m => m["h"] = IntValue(5)}
EmptyMapping == [k \in {} |-> BadValue]

\* co_names: the names of a code object, each once
CoNames == {<<>>, <<"g">>, <<"h">>, <<"g", "h">>, <<"h", "g">>}

\* the functions handed to the locator; a malformed one has no __code__ or no
\* __globals__ attribute
Functions ==
    [kind : {"function"}, co_code : Codes, co_names : CoNames, glbs : Glbs]
Malformed ==
    [kind : {"no_code", "no_globals"}, co_code : {<<>>}, co_names : {<<>>},
     glbs : {EmptyMapping}]
PyFuncs == Functions \cup Malformed

-----------------------------------------------------------------------------
(* numba.core.serialize.dumps: a pickle of the value, or an exception *)

NameByte(k) == CASE k = "g" -> 103 [] k = "h" -> 104 [] OTHER -> 63

\* pickle of a str key: SHORT_BINUNICODE, length, the character
dumps_name(k) == <<140, 1, NameByte(k)>>

\* dumps(v): [ok |-> FALSE] when pickling v raises
dumps(v) ==
    CASE v.kind = "int" -> [ok |-> TRUE, bytes |-> <<75>> \o v.data]
      [] v.kind = "bytes" -> [ok |-> TRUE, bytes |-> <<67, Len(v.data)>> \o v.data]
      [] v.kind = "Bad" -> [ok |-> FALSE, bytes |-> <<>>]
      [] OTHER -> [ok |-> TRUE, bytes |-> <<99, Len(v.data)>> \o v.data \o <<v.inner>>]

\* the items of a dict, pickled in the dict's iteration (insertion) order
RECURSIVE dumps_items(_)
dumps_items(items) ==
    IF items = <<>> THEN <<>>
    ELSE dumps_name(items[1][1]) \o dumps(items[1][2]).bytes \o dumps_items(Tail(items))

\* variant: the items pickled in key order, whatever the insertion order
dumps_dict_sorted(items) ==
    LET has(k) == \E i \in DOMAIN items : items[i][1] = k
        at(k) == items[CHOOSE i \in DOMAIN items : items[i][1] = k]
        sorted == (IF has("g") THEN <<at("g")>> ELSE <<>>)
                      \o (IF has("h") THEN <<at("h")>> ELSE <<>>)
    IN  <<125>>
            \o (CASE Len(sorted) = 0 -> <<>>
                  [] Len(sorted) = 1 -> dumps_items(sorted) \o <<115>>
                  [] OTHER -> <<40>> \o dumps_items(sorted) \o <<117>>)
            \o <<46>>

\* dumps(used_globals): EMPTY_DICT, then nothing for no item, the item and
\* SETITEM for one, MARK items SETITEMS for more, then STOP
dumps_dict(items) ==
    <<125>>
        \o (CASE Len(items) = 0 -> <<>>
              [] Len(items) = 1 -> dumps_items(items) \o <<115>>
              [] OTHER -> <<40>> \o dumps_items(items) \o <<117>>)
        \o <<46>>

-----------------------------------------------------------------------------
(* hashlib.sha256(...).hexdigest(): a collision-free stand-in that renders  *)
(* the input's length and bytes as lowercase hex, zero-padded to DigestLen  *)

HexDigits == <<"0", "1", "2", "3", "4", "5", "6", "7", "8", "9",
               "a", "b", "c", "d", "e", "f">>

\* the j-th hex character (1 high, 2 low) of byte b
HexChar(b, j) == HexDigits[(IF j = 1 THEN b \div 16 ELSE b % 16) + 1]

sha256_hexdigest(bs) ==
    LET n == 2 * Len(bs) + 2
        width == IF n > DigestLen THEN n ELSE DigestLen
    IN  [i \in 1..width |->
            IF i <= 2 THEN HexChar(Len(bs), i)
            ELSE IF i <= n THEN HexChar(bs[(i - 1) \div 2], 2 - (i % 2))
            ELSE "0"]

-----------------------------------------------------------------------------
(* _PreciseCacheLocator.__init__ *)

\* used_globals[k] = c on a dict kept as a sequence of <<key, value>> items
DictSet(items, k, c) ==
    IF \E i \in 1..Len(items) : items[i][1] = k
    THEN [i \in 1..Len(items) |-> IF items[i][1] = k THEN <<k, c>> ELSE items[i]]
    ELSE Append(items, <<k, c>>)

\* variant: an unpicklable global leaves a placeholder instead of nothing
LoopBodyPlaceholder(used, k, glbs) ==
    IF k \notin DOMAIN glbs THEN used
    ELSE LET v == glbs[k] IN
         IF IsWrappedKind(v.kind) THEN DictSet(used, k, BytesValue(v.data))
         ELSE IF dumps(v).ok THEN DictSet(used, k, v)
         ELSE DictSet(used, k, IntValue(0))

\* variant: a wrapped callable contributes a constant, not its inner bytes
LoopBodyWrappedConstant(used, k, glbs) ==
    IF k \notin DOMAIN glbs THEN used
    ELSE LET v == glbs[k] IN
         IF IsWrappedKind(v.kind) THEN DictSet(used, k, BytesValue(<<>>))
         ELSE IF dumps(v).ok THEN DictSet(used, k, v)
         ELSE used

\* variant: no isinstance branches, a wrapped callable is pickled like any value
LoopBodyPickleWrapped(used, k, glbs) ==
    IF k \notin DOMAIN glbs THEN used
    ELSE IF dumps(glbs[k]).ok THEN DictSet(used, k, glbs[k])
    ELSE used

\* one iteration of "for k in code.co_names"
LoopBody(used, k, glbs) ==
    IF k \notin DOMAIN glbs THEN used
    ELSE LET v == glbs[k] IN
         IF v.kind = "_Intrinsic" THEN DictSet(used, k, BytesValue(v.data))
         ELSE IF v.kind = "Dispatcher" THEN DictSet(used, k, BytesValue(v.data))
         ELSE IF dumps(v).ok THEN DictSet(used, k, v)
         ELSE used

\* the whole loop: "for k in code.co_names" from used_globals = used
RECURSIVE UsedGlobals(_, _, _)
UsedGlobals(used, names, glbs) ==
    IF names = <<>> THEN used
    ELSE UsedGlobals(LoopBody(used, Head(names), glbs), Tail(names), glbs)

\* variant: the instruction bytes are left out of the hashed bytes
FuncBytesNoCode(co_code, used) == dumps_dict(used)

\* func_bytes = code.co_code + dumps(used_globals)
FuncBytes(co_code, used) == co_code \o dumps_dict(used)

FuncHash(co_code, used) == sha256_hexdigest(FuncBytes(co_code, used))

NoFunc == [kind |-> "none", co_code |-> <<>>, co_names |-> <<>>, glbs |-> EmptyMapping]

\* a locator that does not exist yet
NoLocator ==
    [state |-> "uninit", _py_func |-> NoFunc, _py_file |-> "", i |-> 0,
     used_globals |-> <<>>, _func_hash |-> <<>>]

\* the frame of a call _PreciseCacheLocator(py_func, py_file) about to run
Called(py_func, py_file) ==
    [NoLocator EXCEPT !.state = "called", !._py_func = py_func, !._py_file = py_file]

\* variant: no try/except around dumps(v), so an unpicklable referenced global
\* makes the constructor raise
ConstructedNoCatch(py_func, py_file) ==
    IF \/ py_func.kind # "function"
       \/ \E i \in DOMAIN py_func.co_names :
             /\ py_func.co_names[i] \in DOMAIN py_func.glbs
             /\ ~IsWrappedKind(py_func.glbs[py_func.co_names[i]].kind)
             /\ ~dumps(py_func.glbs[py_func.co_names[i]]).ok
    THEN [Called(py_func, py_file) EXCEPT !.state = "error"]
    ELSE [Called(py_func, py_file) EXCEPT
              !.state = "ready",
              !._func_hash =
                  FuncHash(py_func.co_code,
                           UsedGlobals(<<>>, py_func.co_names, py_func.glbs))]

\* variant: the loop runs over every global of the module, not over co_names
ConstructedAllGlobals(py_func, py_file) ==
    IF py_func.kind # "function"
    THEN [Called(py_func, py_file) EXCEPT !.state = "error"]
    ELSE [Called(py_func, py_file) EXCEPT
              !.state = "ready",
              !._func_hash =
                  FuncHash(py_func.co_code,
                           UsedGlobals(<<>>,
                                       SelectSeq(<<"g", "h">>,
                                                 LAMBDA k : k \in DOMAIN py_func.glbs),
                                       py_func.glbs))]

\* the locator __init__ leaves behind, or the exception it raises: reading
\* py_func.__code__ or py_func.__globals__ of a malformed py_func raises
Constructed(py_func, py_file) ==
    IF py_func.kind # "function"
    THEN [Called(py_func, py_file) EXCEPT !.state = "error"]
    ELSE [Called(py_func, py_file) EXCEPT
              !.state = "ready",
              !._func_hash =
                  FuncHash(py_func.co_code,
                           UsedGlobals(<<>>, py_func.co_names, py_func.glbs))]

\* _PreciseCacheLocator.from_function(py_func, py_file), start to end
FromFunction(l) ==
    /\ imported
    /\ locator[l].state = "uninit"
    /\ \E py_func \in PyFuncs : \E py_file \in Files :
          locator' = [locator EXCEPT ![l] = Constructed(py_func, py_file)]
    /\ UNCHANGED <<ret, dispatcher, locator_classes, imported>>

(* the same constructor, one step at a time, as a thread runs it *)

\* lines 14-20: super().__init__, self._py_func, code, glbs, used_globals = {}
Enter(l) ==
    /\ locator[l].state = "called"
    /\ locator' =
          [locator EXCEPT ![l] =
              IF @._py_func.kind # "function"
              THEN [@ EXCEPT !.state = "error"]
              ELSE [@ EXCEPT !.state = "loop", !.i = 1, !.used_globals = <<>>]]
    /\ UNCHANGED <<ret, dispatcher, locator_classes, imported>>

\* variant: used_globals is one dict shared by every constructor running
IterateShared(l) ==
    /\ locator[l].state = "loop"
    /\ locator[l].i <= Len(locator[l]._py_func.co_names)
    /\ LET used == LoopBody(locator[l].used_globals,
                            locator[l]._py_func.co_names[locator[l].i],
                            locator[l]._py_func.glbs)
       IN  locator' =
             [x \in Locators |->
                 IF x = l THEN [locator[x] EXCEPT !.used_globals = used, !.i = @ + 1]
                 ELSE IF locator[x].state = "loop"
                      THEN [locator[x] EXCEPT !.used_globals = used]
                      ELSE locator[x]]
    /\ UNCHANGED <<ret, dispatcher, locator_classes, imported>>

\* lines 21-39: one iteration of the loop
Iterate(l) ==
    /\ locator[l].state = "loop"
    /\ locator[l].i <= Len(locator[l]._py_func.co_names)
    /\ locator' =
          [locator EXCEPT ![l] =
              [@ EXCEPT !.used_globals =
                            LoopBody(@, locator[l]._py_func.co_names[locator[l].i],
                                     locator[l]._py_func.glbs),
                        !.i = @ + 1]]
    /\ UNCHANGED <<ret, dispatcher, locator_classes, imported>>

\* lines 41-42: the loop is over, hash and return; the locals are gone
Finish(l) ==
    /\ locator[l].state = "loop"
    /\ locator[l].i > Len(locator[l]._py_func.co_names)
    /\ locator' =
          [locator EXCEPT ![l] =
              [@ EXCEPT !.state = "ready",
                        !._func_hash =
                            FuncHash(locator[l]._py_func.co_code, locator[l].used_globals),
                        !.i = 0,
                        !.used_globals = <<>>]]
    /\ UNCHANGED <<ret, dispatcher, locator_classes, imported>>

-----------------------------------------------------------------------------
(* the accessors *)

NoReturn == [op |-> "none", loc |-> "", value |-> <<>>]

Prefix(s, n) == SubSeq(s, 1, IF Len(s) < n THEN Len(s) ELSE n)

get_source_stamp(self) == self._func_hash

\* variant: the slice is one character short
get_disambiguator_short(self) == Prefix(self._func_hash, PrefixLen - 1)

get_disambiguator(self) == Prefix(self._func_hash, PrefixLen)

\* a caller holds a locator only once its constructor has returned it
GetSourceStamp(l) ==
    /\ locator[l].state = "ready"
    /\ ret' = [op |-> "get_source_stamp", loc |-> l,
               value |-> get_source_stamp(locator[l])]
    /\ UNCHANGED <<locator, dispatcher, locator_classes, imported>>

GetDisambiguator(l) ==
    /\ locator[l].state = "ready"
    /\ ret' = [op |-> "get_disambiguator", loc |-> l,
               value |-> get_disambiguator(locator[l])]
    /\ UNCHANGED <<locator, dispatcher, locator_classes, imported>>

-----------------------------------------------------------------------------
(* the cache classes and Dispatcher.enable_precise_caching *)

\* CompileResultCacheImpl._locator_classes as numba defines it
DefaultLocatorClasses ==
    <<"_UserProvidedCacheLocator", "_InTreeCacheLocator",
      "_UserWideCacheLocator", "_IPythonCacheLocator">>

\* variant: the precise locator is appended to the defaults
PreciseLocatorClassesAppended(base) == base \o <<"_PreciseCacheLocator">>

\* PreciseCacheImpl._locator_classes, evaluated when the class body runs
PreciseLocatorClasses(base) == <<"_PreciseCacheLocator">> \o base

ClassesBeforeImport ==
    [c \in {"CompileResultCacheImpl", "PreciseCacheImpl"} |->
        IF c = "CompileResultCacheImpl" THEN DefaultLocatorClasses ELSE <<>>]

\* importing datashader.cre_cache defines the classes and the Dispatcher method
ClassesAfterImport(classes) ==
    [classes EXCEPT !["PreciseCacheImpl"] =
        PreciseLocatorClasses(classes["CompileResultCacheImpl"])]

ImportCreCache ==
    /\ ~imported
    /\ imported' = TRUE
    /\ locator_classes' = ClassesAfterImport(locator_classes)
    /\ UNCHANGED <<locator, ret, dispatcher>>

NullCache == [cls |-> "NullCache", impl |-> "", locator_cls |-> ""]
FunctionCache ==
    [cls |-> "FunctionCache", impl |-> "CompileResultCacheImpl",
     locator_cls |-> "_InTreeCacheLocator"]
NoDispatcher == [py_func |-> NoFunc, py_file |-> "", _cache |-> NullCache]

SlotOf(d) == IF d = "d1" THEN "L1" ELSE "L2"

\* the cache implementation takes the first class of its list whose
\* from_function returns a locator: the precise one always does, a default one
\* only where its cache directory is usable
RECURSIVE FirstLocatorClass(_, _)
FirstLocatorClass(classes, usable) ==
    IF classes = <<>> THEN ""
    ELSE IF Head(classes) = "_PreciseCacheLocator" \/ Head(classes) \in usable
         THEN Head(classes)
         ELSE FirstLocatorClass(Tail(classes), usable)

\* self._cache = PreciseCache(self.py_func)
EnablePreciseCaching(d) ==
    /\ imported
    /\ \E usable \in SUBSET {"_UserProvidedCacheLocator", "_InTreeCacheLocator"} :
          LET chosen == FirstLocatorClass(locator_classes["PreciseCacheImpl"], usable)
          IN  /\ dispatcher' =
                    [dispatcher EXCEPT ![d]._cache =
                        [cls |-> "PreciseCache", impl |-> "PreciseCacheImpl",
                         locator_cls |-> chosen]]
              /\ locator' =
                    IF chosen = "_PreciseCacheLocator"
                    THEN [locator EXCEPT ![SlotOf(d)] =
                             Constructed(dispatcher[d].py_func, dispatcher[d].py_file)]
                    ELSE locator
    /\ UNCHANGED <<ret, locator_classes, imported>>

-----------------------------------------------------------------------------
(* Specifications *)

\* locators built directly from functions, as the test does
Init ==
    /\ locator = [l \in Locators |-> NoLocator]
    /\ ret = NoReturn
    /\ dispatcher = [d \in Dispatchers |-> NoDispatcher]
    /\ locator_classes = ClassesAfterImport(ClassesBeforeImport)
    /\ imported = TRUE

Next == \E l \in Locators : FromFunction(l)

Spec == Init /\ [][Next]_vars

\* two Dispatchers of one function, the module imported and the precise cache
\* enabled on them, the cache reading its locator
InitCache ==
    /\ locator = [l \in Locators |-> NoLocator]
    /\ ret = NoReturn
    /\ \E py_func \in Functions : \E py_file \in Files :
          dispatcher \in [Dispatchers ->
              [py_func : {py_func}, py_file : {py_file},
               _cache : {NullCache, FunctionCache}]]
    /\ locator_classes = ClassesBeforeImport
    /\ imported = FALSE

NextCache ==
    \/ ImportCreCache
    \/ \E d \in Dispatchers : EnablePreciseCaching(d)
    \/ \E l \in Locators : GetSourceStamp(l)
    \/ \E l \in Locators : GetDisambiguator(l)

SpecCache == InitCache /\ [][NextCache]_vars

\* one function fingerprinted by every thread at once
InitThreads ==
    /\ \E py_func \in PyFuncs :
          locator \in [Locators -> {Called(py_func, py_file) : py_file \in Files}]
    /\ ret = NoReturn
    /\ dispatcher = [d \in Dispatchers |-> NoDispatcher]
    /\ locator_classes = ClassesAfterImport(ClassesBeforeImport)
    /\ imported = TRUE

NextThreads ==
    \/ \E l \in Locators : Enter(l)
    \/ \E l \in Locators : Iterate(l)
    \/ \E l \in Locators : Finish(l)

SpecThreads == InitThreads /\ [][NextThreads]_vars

-----------------------------------------------------------------------------
(* Vocabulary of the properties *)

Ready(l) == locator[l].state = "ready"
Func(l) == locator[l]._py_func
Stamp(l) == get_source_stamp(locator[l])

\* the names the instructions refer to
Referenced(f) == {f.co_names[i] : i \in DOMAIN f.co_names}

IsWrapped(v) == IsWrappedKind(v.kind)
IsPlain(v) == v.kind \in {"int", "bytes"}

\* a mapping without key k
Without(m, k) == [x \in DOMAIN m \ {k} |-> m[x]]

\* a string of DigestLen lowercase hex characters
IsStamp(s) ==
    /\ Len(s) = DigestLen
    /\ \A i \in DOMAIN s : \E j \in DOMAIN HexDigits : s[i] = HexDigits[j]

\* both locators built, from functions with the same instructions and names
SameCode(a, b) ==
    /\ Ready(a) /\ Ready(b)
    /\ Func(a).co_code = Func(b).co_code
    /\ Func(a).co_names = Func(b).co_names

\* the name -> contribution items the loop records for f, in order and as a set
Items(f) == UsedGlobals(<<>>, f.co_names, f.glbs)
ItemSet(f) == {Items(f)[i] : i \in DOMAIN Items(f)}

-----------------------------------------------------------------------------
\* C1: a function that references a global whose pickling raises is still
\* fingerprinted, without an exception, and its stamp equals the stamp of the
\* same function with that global removed from the global mapping.
C1_ExclusionTransparency ==
    /\ \A a \in Locators :
          (/\ locator[a].state \in {"ready", "error"}
           /\ Func(a).kind = "function"
           /\ \E k \in Referenced(Func(a)) :
                 k \in DOMAIN Func(a).glbs /\ Func(a).glbs[k] = BadValue)
          => Ready(a) /\ IsStamp(Stamp(a))
    /\ \A a, b \in Locators : \A k \in Names :
          (/\ SameCode(a, b)
           /\ k \in Referenced(Func(a))
           /\ k \in DOMAIN Func(a).glbs
           /\ Func(a).glbs[k] = BadValue
           /\ Func(b).glbs = Without(Func(a).glbs, k))
          => Stamp(a) = Stamp(b)

\* C1 witness: one locator built from a function referencing the unpicklable g
\* and the picklable h, the other from the same function without g.
C1_Witness ==
    /\ SameCode("L1", "L2")
    /\ Func("L1").co_names = <<"g", "h">>
    /\ DOMAIN Func("L1").glbs = {"g", "h"}
    /\ Func("L1").glbs["g"] = BadValue
    /\ Func("L2").glbs = Without(Func("L1").glbs, "g")

\* C2: construction from a well-formed function always ends ready with a
\* fingerprint, whatever its globals hold; it ends in an error only for a
\* malformed function.
C2_OnlyMalformedFails ==
    \A a \in Locators :
        /\ locator[a].state = "error" => Func(a).kind # "function"
        /\ (locator[a].state # "uninit" /\ Func(a).kind = "function")
              => Ready(a) /\ IsStamp(Stamp(a))

\* C2 witness: a locator built from a function that references an unpicklable
\* global, and a construction that failed on a malformed function.
C2_Witness ==
    /\ Ready("L1")
    /\ "g" \in Referenced(Func("L1"))
    /\ "g" \in DOMAIN Func("L1").glbs
    /\ Func("L1").glbs["g"] = BadValue
    /\ locator["L2"].state = "error"

\* C3: same instructions, same names and the same value for every referenced
\* global give the same stamp, whatever the unreferenced globals and py_file.
C3_ReferencedOnly ==
    \A a, b \in Locators :
        (/\ SameCode(a, b)
         /\ \A k \in Referenced(Func(a)) :
               /\ k \in DOMAIN Func(a).glbs <=> k \in DOMAIN Func(b).glbs
               /\ k \in DOMAIN Func(a).glbs => Func(a).glbs[k] = Func(b).glbs[k])
        => Stamp(a) = Stamp(b)

\* C3 witness: two functions that agree on the referenced h and differ in the
\* unreferenced g (unpicklable in one, absent in the other) and in py_file.
C3_Witness ==
    /\ SameCode("L1", "L2")
    /\ Func("L1").co_names = <<"h">>
    /\ "h" \in DOMAIN Func("L1").glbs /\ "h" \in DOMAIN Func("L2").glbs
    /\ "g" \in DOMAIN Func("L1").glbs /\ Func("L1").glbs["g"] = BadValue
    /\ "g" \notin DOMAIN Func("L2").glbs
    /\ locator["L1"]._py_file # locator["L2"]._py_file

\* C4: functions that differ only in their instruction bytes, or that have the
\* same instructions and names and differ in the value of a referenced plain
\* picklable global, have different stamps.
C4_ContentSensitivity ==
    \A a, b \in Locators :
        /\ (/\ Ready(a) /\ Ready(b)
            /\ Func(a).co_code # Func(b).co_code
            /\ Func(a).co_names = Func(b).co_names
            /\ Func(a).glbs = Func(b).glbs)
           => Stamp(a) # Stamp(b)
        /\ (/\ SameCode(a, b)
            /\ \E k \in Referenced(Func(a)) :
                  /\ k \in DOMAIN Func(a).glbs /\ k \in DOMAIN Func(b).glbs
                  /\ IsPlain(Func(a).glbs[k]) /\ IsPlain(Func(b).glbs[k])
                  /\ Func(a).glbs[k] # Func(b).glbs[k])
           => Stamp(a) # Stamp(b)

\* C4 witness: the same function with the referenced g = 5 and g = 6.
C4_Witness ==
    /\ SameCode("L1", "L2")
    /\ "g" \in Referenced(Func("L1"))
    /\ "g" \in DOMAIN Func("L1").glbs /\ "g" \in DOMAIN Func("L2").glbs
    /\ Func("L1").glbs["g"] = IntValue(5)
    /\ Func("L2").glbs["g"] = IntValue(6)

C6_OrderIndependent ==
    \A a, b \in Locators :
        (/\ Ready(a) /\ Ready(b)
         /\ Func(a).co_code = Func(b).co_code
         /\ ItemSet(Func(a)) = ItemSet(Func(b)))
        => Stamp(a) = Stamp(b)

\* C6 amended: with the same instructions and the same set of (name,
\* contribution) pairs, the stamps are equal exactly when the pairs were
\* recorded in the same order.
C6_InsertionOrder ==
    \A a, b \in Locators :
        (/\ Ready(a) /\ Ready(b)
         /\ Func(a).co_code = Func(b).co_code
         /\ ItemSet(Func(a)) = ItemSet(Func(b)))
        => (Stamp(a) = Stamp(b) <=> Items(Func(a)) = Items(Func(b)))

\* C6 witness: the same two contributing globals met as g, h and as h, g.
C6_Witness ==
    /\ Ready("L1") /\ Ready("L2")
    /\ Func("L1").co_code = Func("L2").co_code
    /\ Func("L1").co_names = <<"g", "h">>
    /\ Func("L2").co_names = <<"h", "g">>
    /\ Len(Items(Func("L1"))) = 2
    /\ ItemSet(Func("L1")) = ItemSet(Func("L2"))

\* what a wrapped value or a bytes value is reduced to
InnerBytes(v) == v.data

\* C10: two functions whose referenced globals are equal, or are wrapped
\* callables or plain bytes with the same (inner) bytes, have the same stamp.
C10_ShallowReduction ==
    \A a, b \in Locators :
        (/\ SameCode(a, b)
         /\ \A k \in Referenced(Func(a)) :
               /\ k \in DOMAIN Func(a).glbs <=> k \in DOMAIN Func(b).glbs
               /\ k \in DOMAIN Func(a).glbs =>
                     \/ Func(a).glbs[k] = Func(b).glbs[k]
                     \/ /\ IsWrapped(Func(a).glbs[k]) \/ Func(a).glbs[k].kind = "bytes"
                        /\ IsWrapped(Func(b).glbs[k]) \/ Func(b).glbs[k].kind = "bytes"
                        /\ InnerBytes(Func(a).glbs[k]) = InnerBytes(Func(b).glbs[k]))
        => Stamp(a) = Stamp(b)

\* C10 witness: g is a Dispatcher whose inner function differs only outside
\* its instruction bytes in one function, and those bytes themselves in the other.
C10_Witness ==
    /\ SameCode("L1", "L2")
    /\ "g" \in Referenced(Func("L1"))
    /\ "g" \in DOMAIN Func("L1").glbs /\ "g" \in DOMAIN Func("L2").glbs
    /\ Func("L1").glbs["g"].kind = "Dispatcher"
    /\ Func("L1").glbs["g"].inner > 0
    /\ Func("L2").glbs["g"] = BytesValue(Func("L1").glbs["g"].data)

-----------------------------------------------------------------------------
\* the cache a Dispatcher has before precise caching is enabled on it
IsDefaultCache(c) == c \in {NullCache, FunctionCache}

\* the strategies a Dispatcher's cache tries, in order
Strategies(d) ==
    IF dispatcher[d]._cache.impl = "" THEN <<>>
    ELSE locator_classes[dispatcher[d]._cache.impl]

\* C7: once the module is imported, the precise cache's strategy list is the
\* precise locator followed by the default list in its order, and the default
\* list is as numba defined it; a Dispatcher with the precise cache got its
\* locator from the precise strategy; a step changes the cache of at most one
\* Dispatcher, to the precise cache, and every other Dispatcher keeps its cache
\* and the default strategies.
C7_StrategyChain ==
    /\ [](/\ locator_classes["CompileResultCacheImpl"] = DefaultLocatorClasses
          /\ imported =>
                /\ Head(locator_classes["PreciseCacheImpl"]) = "_PreciseCacheLocator"
                /\ Tail(locator_classes["PreciseCacheImpl"]) = DefaultLocatorClasses
          /\ \A d \in Dispatchers :
                /\ dispatcher[d]._cache.cls = "PreciseCache" =>
                      /\ Head(Strategies(d)) = "_PreciseCacheLocator"
                      /\ dispatcher[d]._cache.locator_cls = "_PreciseCacheLocator"
                /\ dispatcher[d]._cache.cls = "FunctionCache" =>
                      Strategies(d) = DefaultLocatorClasses)
    /\ [][\A d \in Dispatchers :
              dispatcher'[d] # dispatcher[d] =>
                  /\ dispatcher'[d]._cache.cls = "PreciseCache"
                  /\ \A e \in Dispatchers \ {d} : dispatcher'[e] = dispatcher[e]]_vars

\* C7 witness: d1 has opted in and holds a precise locator, d2 has not and
\* still has numba's function cache.
C7_Witness ==
    /\ imported
    /\ dispatcher["d1"]._cache.cls = "PreciseCache"
    /\ locator[SlotOf("d1")].state = "ready"
    /\ dispatcher["d2"]._cache = FunctionCache

\* the fingerprint of the function a locator was built from
Fingerprint(l) == FuncHash(Func(l).co_code, Items(Func(l)))

\* C8: a built locator stays built with the fingerprint of its function;
\* get_source_stamp returns that fingerprint, get_disambiguator its first 10
\* characters, and neither is ever answered by a locator that is not built.
C8_ReadyState ==
    /\ [](/\ \A l \in Locators : Ready(l) => locator[l]._func_hash = Fingerprint(l)
          /\ ret.op # "none" => Ready(ret.loc)
          /\ ret.op = "get_source_stamp" =>
                ret.value = Fingerprint(ret.loc) /\ IsStamp(ret.value)
          /\ ret.op = "get_disambiguator" =>
                /\ Len(ret.value) = 10
                /\ ret.value = SubSeq(Fingerprint(ret.loc), 1, 10))
    /\ [][\A l \in Locators :
              Ready(l) => /\ locator'[l].state = "ready"
                          /\ locator'[l]._func_hash = locator[l]._func_hash]_vars

\* C8 witness: get_disambiguator answered after get_source_stamp had been
\* called on another built locator.
C8_Witness ==
    /\ ret.op = "get_disambiguator"
    /\ ret.loc = "L1"
    /\ Ready("L1") /\ Ready("L2")

\* C9: locators built from one function by interleaved constructors all end
\* with the same stamp, the fingerprint of that function; a step changes the
\* frame of one constructor only and never the function or its globals.
C9_Deterministic ==
    /\ [](\A a, b \in Locators :
              Ready(a) /\ Ready(b) =>
                  Stamp(a) = Stamp(b) /\ Stamp(a) = Fingerprint(a))
    /\ [][/\ \A l \in Locators : locator'[l]._py_func = locator[l]._py_func
          /\ \A a, b \in Locators :
                (locator'[a] # locator[a] /\ locator'[b] # locator[b]) => a = b]_vars

\* C9 witness: both constructors have finished, after running their loops over
\* two names that both contribute.
C9_Witness ==
    /\ Ready("L1") /\ Ready("L2")
    /\ Len(Items(Func("L1"))) = 2

====
